---- MODULE Spec2Model ----
(***************************************************************************)
(* RFID antenna placement by particle swarm optimisation                   *)
(* (optimize_antenna_placement.py).                                        *)
(*                                                                         *)
(* Reals are fixed point.  Signal, coverage, repulsion and fitness values  *)
(* are integers in units of 1/Scale; the exponentials of the source are    *)
(* tabulated by squared distance.  Velocities are integers in units of     *)
(* 1/VDen, which is exact for draws r1, r2 that are multiples of 1/RDen.   *)
(* Coordinates are the zero-based (row, col) pairs of the source.          *)
(***************************************************************************)
EXTENDS Integers, Sequences, FiniteSets, TLC

(* ------------------------------ bounds --------------------------------- *)
\* largest number of antennas (num_ants) explored
MaxAnts == 2
\* largest number of particles (num_particles) explored
MaxParticles == 2
\* largest number of iterations (num_iters) explored
MaxIters == 3
\* number of entries of valid_positions the initial sampling draws from
MaxSample == 3
\* distance, in valid_positions, between two entries the sampling draws from
SampleStride == 7
\* r1 and r2 are drawn from {0, 1/RDen, ..., (RDen-1)/RDen}, a grid on [0,1)
RDen == 2

(* -------------------------- fixed point units -------------------------- *)
Scale == 10 ^ 6
VDen == 2 * RDen * (2 ^ MaxIters)

(* ------------------------------ the grid ------------------------------- *)
warehouse_map ==
  << <<1, 1, 1, 1, 1, 1, 1, 1, 1, 1>>,
     <<1, 0, 0, 0, 1, 0, 0, 0, 0, 1>>,
     <<1, 0, 1, 0, 1, 0, 1, 1, 0, 1>>,
     <<1, 0, 0, 0, 0, 0, 0, 0, 0, 1>>,
     <<1, 0, 0, 0, 1, 0, 0, 0, 0, 1>>,
     <<1, 1, 1, 1, 1, 1, 1, 1, 1, 1>> >>

map_size == <<Len(warehouse_map), Len(warehouse_map[1])>>

\* 0 <= x < map_size[0] and 0 <= y < map_size[1]
InBounds(x, y) == 0 <= x /\ x < map_size[1] /\ 0 <= y /\ y < map_size[2]

\* warehouse_map[x, y] for an in-bounds index
Cell(x, y) == warehouse_map[x + 1][y + 1]

\* all indices of the grid, as a set and in row-major order
Cells == (0 .. map_size[1] - 1) \X (0 .. map_size[2] - 1)

CellSeq ==
  [k \in 1 .. map_size[1] * map_size[2] |->
     <<(k - 1) \div map_size[2], (k - 1) % map_size[2]>>]

IsFree(c) == Cell(c[1], c[2]) = 0

\* np.argwhere(warehouse_map == 0): the FREE cells in row-major order
valid_positions == SelectSeq(CellSeq, IsFree)

valid_set == {valid_positions[k] : k \in 1 .. Len(valid_positions)}

(* ------------------------------ helpers -------------------------------- *)
RECURSIVE SumSeq(_)
SumSeq(s) == IF s = <<>> THEN 0 ELSE Head(s) + SumSeq(Tail(s))

\* np.max of a non-empty vector
RECURSIVE MaxSeq(_)
MaxSeq(s) ==
  IF Len(s) = 1 THEN s[1]
  ELSE LET m == MaxSeq(Tail(s)) IN IF s[1] >= m THEN s[1] ELSE m

(* ------------------------- exponential tables -------------------------- *)
\* round(Scale * exp(-sqrt(d2) / signalrange)), signalrange = 0.46, d2 = 0..32
DecayTable ==
  <<
    1000000, 113732, 46218, 23160, 12935, 7743, 4868, 3178, 2136, 1471,
    1034, 739, 536, 394, 293, 221, 167, 128, 99, 77,
    60, 47, 37, 30, 24, 19, 15, 12, 10, 8,
    7, 6, 5
  >>

\* round(Scale * exp(-sqrt(d2) / 2)), d2 = 0..32
HeatTable ==
  <<
    1000000, 606531, 493069, 420620, 367879, 326922, 293833, 266368, 243117, 223130,
    205741, 190460, 176921, 164841, 153996, 144209, 135335, 127256, 119873, 113104,
    106878, 101136, 95827, 90907, 86338, 82085, 78120, 74417, 70952, 67706,
    64660, 61798, 59106
  >>

\* round(Scale * exp(-sqrt(d2) / 3)), d2 = 0..170
RepulsionTable ==
  <<
    1000000, 716531, 624125, 561384, 513417, 474565, 441977, 413988, 389532, 367879,
    348509, 331032, 315152, 300637, 287303, 274997, 263597, 252999, 243117, 233876,
    225212, 217072, 209408, 202177, 195344, 188876, 182743, 176921, 171386, 166118,
    161098, 156309, 151735, 147363, 143180, 139175, 135335, 131653, 128118, 124722,
    121458, 118319, 115297, 112386, 109582, 106878, 104269, 101752, 99321, 96972,
    94702, 92507, 90383, 88328, 86338, 84410, 82543, 80733, 78978, 77275,
    75623, 74020, 72464, 70952, 69483, 68056, 66669, 65320, 64009, 62733,
    61491, 60282, 59106, 57960, 56844, 55757, 54698, 53665, 52659, 51678,
    50721, 49787, 48876, 47988, 47120, 46274, 45447, 44640, 43852, 43082,
    42329, 41594, 40876, 40173, 39487, 38816, 38159, 37517, 36889, 36275,
    35674, 35086, 34510, 33947, 33395, 32855, 32326, 31808, 31301, 30804,
    30318, 29841, 29373, 28915, 28467, 28027, 27595, 27172, 26758, 26351,
    25953, 25562, 25178, 24802, 24432, 24070, 23715, 23366, 23024, 22688,
    22358, 22034, 21716, 21404, 21097, 20796, 20501, 20210, 19925, 19645,
    19370, 19099, 18833, 18572, 18316, 18063, 17816, 17572, 17332, 17097,
    16866, 16638, 16414, 16194, 15978, 15765, 15556, 15350, 15147, 14948,
    14752, 14559, 14370, 14183, 13999, 13819, 13641, 13466, 13293, 13124,
    12957
  >>

\* np.exp(-distance / signalrange) with distance = np.sqrt(i**2 + j**2)
Decay(i, j) == DecayTable[i * i + j * j + 1]

\* np.exp(-np.sqrt(i**2 + j**2) / 2)
SignalStrength(i, j) == HeatTable[i * i + j * j + 1]

(* ------------------------- compute_coverage ---------------------------- *)
repulsion_weight == <<7, 10>>
critical_zone_weight == <<18, 10>>

\* range(-4, 5)
Window == -4 .. 4

\* critical_zones[x, y]: a FREE interior cell walled on one axis, open on the other
critical_zones(x, y) ==
  /\ 1 <= x /\ x < map_size[1] - 1 /\ 1 <= y /\ y < map_size[2] - 1
  /\ Cell(x, y) = 0
  /\ \/ /\ Cell(x - 1, y) = 1 /\ Cell(x + 1, y) = 1
        /\ Cell(x, y - 1) = 0 /\ Cell(x, y + 1) = 0
     \/ /\ Cell(x, y - 1) = 1 /\ Cell(x, y + 1) = 1
        /\ Cell(x - 1, y) = 0 /\ Cell(x + 1, y) = 0

\* the offset (i, j) of the window of antenna (x, y) passes the test of line 66:
\* (nx, ny) = (x + i, y + j) is in bounds and FREE (distance < 8 always holds)
Reached(x, y, i, j) ==
  /\ i \in Window /\ j \in Window
  /\ InBounds(x + i, y + j)
  /\ Cell(x + i, y + j) = 0

\* what antenna (x, y) adds to coverage_map[c] at (nx, ny) = c: the decay and,
\* on a critical cell, critical_zone_weight.  c is hit by the one offset c - (x, y).
Direct(x, y, c) ==
  LET i == c[1] - x
      j == c[2] - y
  IN  IF Reached(x, y, i, j)
      THEN Decay(i, j)
           + (IF critical_zones(c[1], c[2])
              THEN (critical_zone_weight[1] * Scale) \div critical_zone_weight[2]
              ELSE 0)
      ELSE 0

\* a reflection credited to the traversable cells instead of the walls
ReflectsOnFree(c) == Cell(c[1], c[2]) = 0

\* the test of line 76 on a reflection target (rx, ry), already known in bounds
ReflectsOn(c) == Cell(c[1], c[2]) = 1

\* what antenna (x, y) adds to coverage_map[c] at the reflection targets
\* (rx, ry) = c.  (nx, 2*ny - y) = (x + i, y + 2*j) equals c for the one offset
\* i = c[1] - x, j = (c[2] - y) / 2, and (2*nx - x, ny) = (x + 2*i, y + j) for
\* i = (c[1] - x) / 2, j = c[2] - y.
Reflect(x, y, c) ==
  LET dx == c[1] - x
      dy == c[2] - y
  IN  IF ReflectsOn(c)
      THEN (IF dy % 2 = 0 /\ Reached(x, y, dx, dy \div 2)
            THEN Decay(dx, dy \div 2) \div 2 ELSE 0)
           + (IF dx % 2 = 0 /\ Reached(x, y, dx \div 2, dy)
              THEN Decay(dx \div 2, dy) \div 2 ELSE 0)
      ELSE 0

\* coverage_map after the propagation loop of lines 62-81
CoverageMap(antennas) ==
  [c \in Cells |->
     SumSeq([k \in 1 .. Len(antennas) |->
               Direct(antennas[k][1], antennas[k][2], c)
               + Reflect(antennas[k][1], antennas[k][2], c)])]

\* np.mean(coverage_map[valid_mask])
MeanOverFree(cmap) ==
  SumSeq([k \in 1 .. Len(valid_positions) |-> cmap[valid_positions[k]]])
    \div Len(valid_positions)

\* np.inf as an entry of the matrix of squared distances, none of which is negative
Inf == -1

\* the matrix of squared distances with its diagonal left at zero
DistancesNoFill(antennas, a, b) ==
  (antennas[a][1] - antennas[b][1]) * (antennas[a][1] - antennas[b][1])
  + (antennas[a][2] - antennas[b][2]) * (antennas[a][2] - antennas[b][2])

\* cdist(antennas, antennas) squared, after np.fill_diagonal(distances, np.inf)
Distances(antennas, a, b) ==
  IF a = b THEN Inf
  ELSE (antennas[a][1] - antennas[b][1]) * (antennas[a][1] - antennas[b][1])
       + (antennas[a][2] - antennas[b][2]) * (antennas[a][2] - antennas[b][2])

\* np.exp(-distances / 3), entry by entry; exp(-inf) = 0
ExpNegThird(d2) == IF d2 = Inf THEN 0 ELSE RepulsionTable[d2 + 1]

\* np.sum(np.exp(-distances / 3))
RepulsionScore(antennas) ==
  SumSeq([a \in 1 .. Len(antennas) |->
            SumSeq([b \in 1 .. Len(antennas) |->
                      ExpNegThird(Distances(antennas, a, b))])])

\* coverage_score - repulsion_weight * repulsion_score
Fitness(cscore, rscore) ==
  cscore - (repulsion_weight[1] * rscore) \div repulsion_weight[2]

compute_coverage(antennas) ==
  Fitness(MeanOverFree(CoverageMap(antennas)), RepulsionScore(antennas))

\* [compute_coverage(p) for p in particles]
RECURSIVE FitnessOf(_)
FitnessOf(ps) ==
  IF ps = <<>> THEN <<>>
  ELSE <<compute_coverage(Head(ps))>> \o FitnessOf(Tail(ps))

(* ----------------------- plot_coverage_heatmap -------------------------- *)
\* what antenna (x, y) adds to the heatmap at (nx, ny) = c (line 115)
HeatDirect(x, y, c) ==
  LET i == c[1] - x
      j == c[2] - y
  IN  IF Reached(x, y, i, j) THEN SignalStrength(i, j) ELSE 0

\* what antenna (x, y) adds to the heatmap at the reflection targets (rx, ry) = c
HeatReflect(x, y, c) ==
  LET dx == c[1] - x
      dy == c[2] - y
  IN  IF Cell(c[1], c[2]) = 1
      THEN (IF dy % 2 = 0 /\ Reached(x, y, dx, dy \div 2)
            THEN SignalStrength(dx, dy \div 2) \div 2 ELSE 0)
           + (IF dx % 2 = 0 /\ Reached(x, y, dx \div 2, dy)
              THEN SignalStrength(dx \div 2, dy) \div 2 ELSE 0)
      ELSE 0

\* coverage_map of plot_coverage_heatmap after its loop
HeatMap(antennas) ==
  [c \in Cells |->
     SumSeq([k \in 1 .. Len(antennas) |->
               HeatDirect(antennas[k][1], antennas[k][2], c)
               + HeatReflect(antennas[k][1], antennas[k][2], c)])]

(* ----------------------- plot_coverage_overlap -------------------------- *)
\* overlap_map after the loop: the number of antennas whose window reaches c
OverlapMap(antennas) ==
  [c \in Cells |->
     SumSeq([k \in 1 .. Len(antennas) |->
               IF Reached(antennas[k][1], antennas[k][2],
                          c[1] - antennas[k][1], c[2] - antennas[k][2])
               THEN 1 ELSE 0])]

(* ------------------------------ PSO ------------------------------------ *)
w == <<1, 2>>
c1 == <<3, 2>>
c2 == <<3, 2>>

\* global_best = None: a value that no placement equals
None == << <<>> >>

\* best_fitness = -np.inf: below every fitness
NegInf == -(2 ^ 30)

\* np.random.rand(), on the grid of multiples of 1/RDen
RDraws == 0 .. RDen - 1

\* the indices np.random.choice(len(valid_positions), ...) draws (zero-based)
SampleIdx == {(k * SampleStride) % Len(valid_positions) : k \in 0 .. MaxSample - 1}

\* the rows of valid_positions at those indices
SampleCells == {valid_positions[n + 1] : n \in SampleIdx}

\* np.argmax: the first index of the maximum
ArgMax(fit) ==
  CHOOSE i \in 1 .. Len(fit) :
    /\ fit[i] = MaxSeq(fit)
    /\ \A k \in 1 .. i - 1 : fit[k] # MaxSeq(fit)

\* an update that also fires on an equal maximum
ImprovesOrEquals(m, best) == m >= best

\* np.max(fitness) > best_fitness
Improves(m, best) == m > best

\* an update that takes every iteration's maximum
NextBestAlways(m, best) == m

\* best_fitness after lines 175-176
NextBest(m, best) == IF Improves(m, best) THEN m ELSE best

\* one component of line 183, in units of 1/VDen; a/RDen = r1, b/RDen = r2,
\* p a coordinate of the particle and g the same coordinate of global_best
NewVelocity(v, a, b, p, g) ==
  (w[1] * v) \div w[2]
  + (c1[1] * a * (p - g) * VDen) \div (c1[2] * RDen)
  + (c2[1] * b * (p - g) * VDen) \div (c2[2] * RDen)

\* np.round of n/VDen: to the nearest integer, halves to the even one
Round(n) ==
  LET q == n \div VDen
      r == n % VDen
  IN  IF 2 * r < VDen THEN q
      ELSE IF 2 * r > VDen THEN q + 1
      ELSE IF q % 2 = 0 THEN q ELSE q + 1

\* a test of the bounds alone
IsValidInBounds(c) == InBounds(c[1], c[2])

\* tuple(new_particles[i, j]) in valid_set
IsValid(c) == c \in valid_set

\* a repair that reverts the whole particle when one candidate is invalid
RepairWholeParticle(cand, old) ==
  IF \A j \in 1 .. Len(cand) : IsValid(cand[j]) THEN cand ELSE old

\* lines 188-190 for one particle: each invalid candidate reverts to its old value
RepairParticle(cand, old) ==
  [j \in 1 .. Len(cand) |-> IF IsValid(cand[j]) THEN cand[j] ELSE old[j]]

VARIABLES
  pc,               \* position in the script
  num_ants, num_particles, num_iters,
  particles,        \* particles[i][j] = <<row, col>>
  velocity,         \* velocity[i][j] = <<vrow, vcol>>, in units of 1/VDen
  global_best, best_fitness, fitness_history,
  fitness,          \* the vector of line 172
  r1, r2,           \* the draws of line 182, as multiples of 1/RDen
  iter,             \* iterations of the loop of line 171 completed
  old_particles,    \* history: particles as the last iteration found them
  heatmap,          \* coverage_map of plot_coverage_heatmap
  overlap_map,      \* overlap_map of plot_coverage_overlap
  antennas,         \* argument of a call of compute_coverage
  coverage_map, coverage_score, repulsion_score,   \* its locals
  result            \* its return value

vars ==
  <<pc, num_ants, num_particles, num_iters, particles, velocity, global_best,
    best_fitness, fitness_history, fitness, r1, r2, iter, old_particles,
    heatmap, overlap_map, antennas, coverage_map, coverage_score,
    repulsion_score, result>>

swarmVars ==
  <<particles, velocity, global_best, best_fitness, fitness_history, fitness,
    r1, r2, iter, old_particles>>

evalVars == <<antennas, coverage_map, coverage_score, repulsion_score, result>>

configVars == <<num_ants, num_particles, num_iters>>

\* the script before line 24, for the configuration (K, N, T)
Start(K, N, T) ==
  /\ pc = "init"
  /\ num_ants = K /\ num_particles = N /\ num_iters = T
  /\ particles = <<>> /\ velocity = <<>> /\ old_particles = <<>>
  /\ global_best = None /\ best_fitness = NegInf
  /\ fitness_history = <<>> /\ fitness = <<>>
  /\ r1 = 0 /\ r2 = 0 /\ iter = 0
  /\ heatmap = <<>> /\ overlap_map = <<>>
  /\ antennas = <<>> /\ coverage_map = <<>>
  /\ coverage_score = 0 /\ repulsion_score = 0 /\ result = 0

Init ==
  \E K \in 1 .. MaxAnts, N \in 1 .. MaxParticles, T \in 1 .. MaxIters :
    Start(K, N, T)

\* lines 24-29 and 167-169: sample the particles, zero the velocities
InitSwarm ==
  /\ pc = "init"
  /\ particles' \in [1 .. num_particles -> [1 .. num_ants -> SampleCells]]
  /\ old_particles' = particles'
  /\ velocity' = [i \in 1 .. num_particles |-> [j \in 1 .. num_ants |-> <<0, 0>>]]
  /\ global_best' = None
  /\ best_fitness' = NegInf
  /\ fitness_history' = <<>>
  /\ pc' = "loop"
  /\ UNCHANGED <<fitness, r1, r2, iter, heatmap, overlap_map>>
  /\ UNCHANGED configVars
  /\ UNCHANGED evalVars

\* line 183 for one particle: pos its placement, vel its velocity, gb global_best
VelocityUpdate(vel, a, b, pos, gb) ==
  [j \in 1 .. Len(pos) |->
     <<NewVelocity(vel[j][1], a, b, pos[j][1], gb[j][1]),
       NewVelocity(vel[j][2], a, b, pos[j][2], gb[j][2])>>]

\* line 184 for one particle: np.round(particles + velocity).astype(int)
Candidates(pos, vel) ==
  [j \in 1 .. Len(pos) |->
     <<Round(pos[j][1] * VDen + vel[j][1]), Round(pos[j][2] * VDen + vel[j][2])>>]

\* for _ in range(num_iters): another pass after `it` completed ones
LoopRuns(it, T) == it < T

\* one pass of the loop body, lines 172-192
Iterate ==
  /\ pc = "loop"
  /\ LoopRuns(iter, num_iters)
  /\ num_particles > 0
  /\ fitness' = FitnessOf(particles)
  /\ best_fitness' = NextBest(MaxSeq(fitness'), best_fitness)
  /\ global_best' = IF Improves(MaxSeq(fitness'), best_fitness)
                    THEN particles[ArgMax(fitness')]
                    ELSE global_best
  /\ fitness_history' = Append(fitness_history, best_fitness')
  /\ \E a \in RDraws, b \in RDraws : r1' = a /\ r2' = b
  /\ velocity' = [i \in 1 .. num_particles |->
                    VelocityUpdate(velocity[i], r1', r2', particles[i], global_best')]
  /\ particles' = [i \in 1 .. num_particles |->
                     RepairParticle(Candidates(particles[i], velocity'[i]), particles[i])]
  /\ old_particles' = particles
  /\ iter' = iter + 1
  /\ UNCHANGED <<pc, heatmap, overlap_map>>
  /\ UNCHANGED configVars
  /\ UNCHANGED evalVars

\* line 175 with no particle: np.max of an empty vector raises ValueError
IterateFail ==
  /\ pc = "loop"
  /\ LoopRuns(iter, num_iters)
  /\ num_particles = 0
  /\ fitness' = <<>>
  /\ pc' = "error"
  /\ UNCHANGED <<particles, velocity, global_best, best_fitness, fitness_history,
                 r1, r2, iter, old_particles, heatmap, overlap_map>>
  /\ UNCHANGED configVars
  /\ UNCHANGED evalVars

\* lines 195-205 after the loop: the two maps of global_best, then the plots
Report ==
  /\ pc = "loop"
  /\ ~LoopRuns(iter, num_iters)
  /\ global_best # None
  /\ heatmap' = HeatMap(global_best)
  /\ overlap_map' = OverlapMap(global_best)
  /\ pc' = "done"
  /\ UNCHANGED swarmVars
  /\ UNCHANGED configVars
  /\ UNCHANGED evalVars

\* line 195 with global_best = None: line 106 iterates None and raises TypeError
ReportFail ==
  /\ pc = "loop"
  /\ ~LoopRuns(iter, num_iters)
  /\ global_best = None
  /\ pc' = "error"
  /\ UNCHANGED <<heatmap, overlap_map>>
  /\ UNCHANGED swarmVars
  /\ UNCHANGED configVars
  /\ UNCHANGED evalVars

Next == InitSwarm \/ Iterate \/ Report

Spec == Init /\ [][Next]_vars

(* ------------- the script under any configuration (K, N, T) ------------- *)
InitCfg ==
  \E K \in 0 .. MaxAnts, N \in 0 .. MaxParticles, T \in 0 .. MaxIters :
    Start(K, N, T)

NextCfg == InitSwarm \/ Iterate \/ IterateFail \/ Report \/ ReportFail

SpecCfg == InitCfg /\ [][NextCfg]_vars

(* --------------------- one call of compute_coverage --------------------- *)
\* coordinates a caller may pass: FREE cells, OBSTACLE cells, and pairs outside
\* the grid on either side
EvalCoords ==
  {<<1, 1>>, <<1, 2>>, <<3, 4>>, <<4, 8>>, <<2, 2>>, <<0, 0>>, <<-1, 3>>, <<6, 10>>}

InitEval ==
  /\ pc = "call"
  /\ \E K \in 1 .. MaxAnts :
       /\ num_ants = K
       /\ antennas \in [1 .. K -> EvalCoords]
  /\ num_particles = 1 /\ num_iters = 1
  /\ particles = <<>> /\ velocity = <<>> /\ old_particles = <<>>
  /\ global_best = None /\ best_fitness = NegInf
  /\ fitness_history = <<>> /\ fitness = <<>>
  /\ r1 = 0 /\ r2 = 0 /\ iter = 0
  /\ heatmap = <<>> /\ overlap_map = <<>>
  /\ coverage_map = <<>>
  /\ coverage_score = 0 /\ repulsion_score = 0 /\ result = 0

\* the body of compute_coverage, lines 50-92, on the argument antennas
Evaluate ==
  /\ pc = "call"
  /\ coverage_map' = CoverageMap(antennas)
  /\ coverage_score' = MeanOverFree(coverage_map')
  /\ repulsion_score' = RepulsionScore(antennas)
  /\ result' = Fitness(coverage_score', repulsion_score')
  /\ pc' = "returned"
  /\ UNCHANGED <<antennas, heatmap, overlap_map>>
  /\ UNCHANGED swarmVars
  /\ UNCHANGED configVars

NextEval == Evaluate

SpecEval == InitEval /\ [][NextEval]_vars

(* ------------------------------ properties ------------------------------ *)
Particles == 1 .. num_particles
Emitters == 1 .. num_ants

\* a pass of the loop body has just been taken
IterateStep == pc = "loop" /\ iter' = iter + 1

\* the candidate of line 184 for emitter j of particle i in the last pass
LastCandidate(i, j) ==
  <<Round(old_particles[i][j][1] * VDen + velocity[i][j][1]),
    Round(old_particles[i][j][2] * VDen + velocity[i][j][2])>>

\* the largest entry of a non-empty vector
Largest(fit) ==
  CHOOSE x \in {fit[i] : i \in 1 .. Len(fit)} : \A i \in 1 .. Len(fit) : fit[i] <= x

\* the lowest index at which a vector takes its largest entry
FirstLargest(fit) ==
  CHOOSE i \in 1 .. Len(fit) :
    /\ fit[i] = Largest(fit)
    /\ \A k \in 1 .. i - 1 : fit[k] < Largest(fit)

\* C1: once the population is sampled, and after every pass of the loop, every
\* emitter coordinate of every particle is a member of valid_set, that is an
\* in-bounds FREE cell; an out-of-range candidate is never committed.
C1_RepairInvariant ==
  pc # "init" =>
    \A i \in Particles, j \in Emitters :
      /\ particles[i][j] \in valid_set
      /\ InBounds(particles[i][j][1], particles[i][j][2])
      /\ Cell(particles[i][j][1], particles[i][j][2]) = 0

\* a pass produced a candidate with an index outside the grid, and the emitter
\* kept its old coordinate
C1_Witness ==
  /\ iter >= 1
  /\ \E i \in Particles, j \in Emitters :
       /\ ~InBounds(LastCandidate(i, j)[1], LastCandidate(i, j)[2])
       /\ LastCandidate(i, j)[1] < 0
       /\ particles[i][j] = old_particles[i][j]

\* C2: the loop makes exactly num_iters passes and then stops; each pass appends
\* one entry to fitness_history, which so has num_iters entries at the end, and
\* the history never decreases, also when an iteration's maximum fitness drops.
C2_History ==
  /\ iter <= num_iters
  /\ Len(fitness_history) = iter
  /\ pc = "done" => iter = num_iters /\ Len(fitness_history) = num_iters
  /\ \A k \in 1 .. Len(fitness_history) - 1 :
       fitness_history[k] <= fitness_history[k + 1]

\* the run has ended after a pass whose maximum fitness was below the incumbent
C2_Witness ==
  /\ pc = "done"
  /\ Len(fitness_history) >= 3
  /\ Largest(fitness) < best_fitness
  /\ fitness_history[Len(fitness_history)] = best_fitness

\* C3: in every pass, the new velocity of every particle is
\* w*velocity + c1*r1*(global_best - position) + c2*r2*(global_best - position);
\* so from a zero velocity and with r1 + r2 > 0 each component of the new
\* velocity has the sign of (global_best - position), never the opposite one.
C3_VelocityTowardsBest ==
  [][IterateStep =>
       \A i \in Particles, j \in Emitters, c \in 1 .. 2 :
         LET towards == global_best'[j][c] - particles[i][j][c] IN
           /\ velocity'[i][j][c] =
                (w[1] * velocity[i][j][c]) \div w[2]
                + (c1[1] * r1' * towards * VDen) \div (c1[2] * RDen)
                + (c2[1] * r2' * towards * VDen) \div (c2[2] * RDen)
           /\ (velocity[i][j][c] = 0 /\ r1' + r2' > 0) =>
                /\ towards > 0 => velocity'[i][j][c] > 0
                /\ towards < 0 => velocity'[i][j][c] < 0
                /\ towards = 0 => velocity'[i][j][c] = 0]_vars

\* C4: a pass changes global_best and best_fitness only if its maximum fitness
\* is strictly greater than best_fitness; then best_fitness becomes that maximum
\* and global_best the placement, as the pass found it, of the lowest-index
\* particle achieving it.  The first pass always sets global_best; for one
\* particle and one iteration the result is that particle's initial placement
\* and the history is its fitness.
C4_GlobalBestRule ==
  /\ [][IterateStep =>
          LET m == Largest(fitness') IN
            /\ fitness' = [i \in Particles |-> compute_coverage(particles[i])]
            /\ IF m > best_fitness
               THEN /\ best_fitness' = m
                    /\ global_best' = particles[FirstLargest(fitness')]
               ELSE /\ best_fitness' = best_fitness
                    /\ global_best' = global_best
            /\ iter = 0 => global_best' = particles[FirstLargest(fitness')]]_vars
  /\ [](pc = "done" /\ num_particles = 1 /\ num_iters = 1 =>
          /\ global_best = old_particles[1]
          /\ fitness_history = <<compute_coverage(old_particles[1])>>)

\* after a strict improvement in the second pass, a later pass met the
\* incumbent's fitness with a different placement first in the population, and
\* global_best stayed
C4_Witness ==
  /\ iter >= 3
  /\ fitness_history[2] > fitness_history[1]
  /\ Largest(fitness) = best_fitness
  /\ old_particles[FirstLargest(fitness)] # global_best

\* C5: a placement with an out-of-bounds coordinate or a coordinate on an
\* OBSTACLE cell is rejected on entry of compute_coverage; no fitness is
\* returned for it.
C5_InvalidPlacementRejected ==
  (\E k \in 1 .. Len(antennas) : antennas[k] \notin valid_set) => pc # "returned"

\* C6: a configuration with num_ants, num_particles or num_iters non-positive is
\* rejected at construction: the script samples no particle, runs no iteration
\* and reaches no reporting step.
C6_BadConfigurationRejected ==
  (num_ants <= 0 \/ num_particles <= 0 \/ num_iters <= 0) =>
    pc \in {"init", "rejected"}

\* C7: the final coverage map drawn for global_best agrees, cell by cell, with
\* the coverage map compute_coverage builds for that placement.
C7_FinalMapIsEvaluatorMap ==
  pc = "done" => \A c \in Cells : heatmap[c] = CoverageMap(global_best)[c]

\* the sum of exp(-distance/3) over the unordered pairs of distinct emitters
RECURSIVE PairSum(_, _, _)
PairSum(ants, a, b) ==
  IF a >= Len(ants) THEN 0
  ELSE IF b > Len(ants) THEN PairSum(ants, a + 1, a + 2)
  ELSE RepulsionTable[(ants[a][1] - ants[b][1]) * (ants[a][1] - ants[b][1])
                      + (ants[a][2] - ants[b][2]) * (ants[a][2] - ants[b][2]) + 1]
       + PairSum(ants, a, b + 1)

\* C8: the repulsion score counts each unordered pair of distinct emitters
\* twice and no emitter with itself: it is 0 for one emitter, whose fitness is
\* the coverage score; 2 for two emitters on one cell, a penalty of
\* repulsion_weight * 2; and K*(K-1) for K emitters on one cell.
C8_Repulsion ==
  pc = "returned" =>
    LET K == Len(antennas)
        together == \A k \in 1 .. K : antennas[k] = antennas[1]
    IN  /\ repulsion_score = 2 * PairSum(antennas, 1, 2)
        /\ K = 1 => repulsion_score = 0 /\ result = coverage_score
        /\ together => repulsion_score = K * (K - 1) * Scale
        /\ (K = 2 /\ together) =>
             /\ repulsion_score = 2 * Scale
             /\ result = coverage_score - (7 * 2 * Scale) \div 10

\* a call with two emitters on one cell has returned
C8_Witness ==
  /\ pc = "returned"
  /\ Len(antennas) = 2
  /\ antennas[1] = antennas[2]
  /\ repulsion_score = 2 * Scale
  /\ result < coverage_score

\* coverage_map without the reflection step of lines 73-77
DirectMap(ants) ==
  [c \in Cells |->
     SumSeq([k \in 1 .. Len(ants) |-> Direct(ants[k][1], ants[k][2], c)])]

\* C10: the reflection step writes only to OBSTACLE cells, the decay and the
\* critical-zone steps only to FREE cells; so the coverage score and the
\* fitness are what they would be without the reflection step, and the
\* coverage score is not negative.
C10_ReflectionFrame ==
  pc = "returned" =>
    /\ \A c \in Cells : IsFree(c) => coverage_map[c] = DirectMap(antennas)[c]
    /\ \A c \in Cells : ~IsFree(c) => DirectMap(antennas)[c] = 0
    /\ coverage_score = MeanOverFree(DirectMap(antennas))
    /\ result = Fitness(MeanOverFree(DirectMap(antennas)), repulsion_score)
    /\ coverage_score >= 0

\* a call on a valid placement has returned with a reflection on a wall
C10_Witness ==
  /\ pc = "returned"
  /\ \A k \in 1 .. Len(antennas) : antennas[k] \in valid_set
  /\ \E c \in Cells : ~IsFree(c) /\ coverage_map[c] > 0
  /\ coverage_score > 0

\* C9: in a pass, for each particle and emitter on its own, the position keeps
\* its value if the rounded candidate is not in valid_set and becomes the
\* candidate otherwise; the velocity keeps its newly computed value either way.
C9_RepairPerEmitter ==
  [][IterateStep =>
       \A i \in Particles, j \in Emitters :
         LET cand == <<Round(particles[i][j][1] * VDen + velocity'[i][j][1]),
                       Round(particles[i][j][2] * VDen + velocity'[i][j][2])>>
         IN  /\ particles'[i][j] =
                  IF cand \in valid_set THEN cand ELSE particles[i][j]
             /\ \A c \in 1 .. 2 :
                  velocity'[i][j][c] =
                    NewVelocity(velocity[i][j][c], r1', r2',
                                particles[i][j][c], global_best'[j][c])]_vars

\* in the last pass one emitter of a particle was rejected, with a non-zero
\* velocity that stayed, while another emitter of the same particle moved
C9_Witness ==
  /\ iter >= 1
  /\ \E i \in Particles, j \in Emitters, k \in Emitters :
       /\ LastCandidate(i, j) \notin valid_set
       /\ particles[i][j] = old_particles[i][j]
       /\ velocity[i][j] # <<0, 0>>
       /\ LastCandidate(i, k) \in valid_set
       /\ particles[i][k] = LastCandidate(i, k)
       /\ particles[i][k] # old_particles[i][k]

====
